---- MODULE Spec2Model ----
(***************************************************************************)
(* A model of climpred/classes.py: the PredictionEnsemble base class and   *)
(* its two subclasses PerfectModelEnsemble and HindcastEnsemble.           *)
(*                                                                         *)
(* An xarray object is modelled by what this module reads of it: its type  *)
(* (Dataset or DataArray), the set of its dimension names and the list of  *)
(* its data variable names.  The empty dict `{}` that the constructors     *)
(* store as the "nothing attached" placeholder is a value of its own.      *)
(* The numerical engines (prediction.py, bootstrap.py) are modelled by the *)
(* call they receive: the engine's name and the two objects passed to it.  *)
(* `metric`, `comparison`, `sig`, `bootstrap`, `pers_sig` and `nlags` are  *)
(* handed through to the engines untouched and take no part in any branch, *)
(* so they are left out.                                                   *)
(***************************************************************************)
EXTENDS Integers, Sequences, FiniteSets, TLC

VARIABLES kind, initialized, uninitialized, control, reference, op, result, history

vars == <<kind, initialized, uninitialized, control, reference, op, result, history>>

-----------------------------------------------------------------------------
(* Bounds and input universes *)

\* Number of distinct reference names the caller uses.
MaxRefs == 2

\* Reference names (the `name` / `refname` arguments).
NameOf == <<"obs", "recon", "assim", "hist">>

Names == {NameOf[i] : i \in 1..MaxRefs}

\* The Python value None as an argument.
None == "None"

\* Data variable names.
Vars == {"SST", "SALT", "TEMP"}

Range(l) == {l[i] : i \in DOMAIN l}

\* An xarray object: its type, its dimension names, the names of its data
\* variables in their order.
XObj(type, dims, data_vars) ==
    [type |-> type, dims |-> dims, data_vars |-> data_vars]

\* Objects offered to the constructors: Datasets and DataArrays with and
\* without `init`, `lead`, `member` and a spatial dimension.  A prediction
\* ensemble is indexed by `init`, never by `time` as well: renaming `init`
\* onto an existing `time` is settled inside xarray, not in this module.
EnsembleDims ==
    {{}, {"init"}, {"lead"}, {"init", "member", "lat"}, {"init", "lead"},
     {"init", "lead", "member", "lat"}}

EnsembleVarLists == {<<>>, <<"SST">>, <<"SST", "SALT">>}

EnsembleXObjs ==
    {XObj("Dataset", d, v) : d \in EnsembleDims, v \in EnsembleVarLists}
    \cup {XObj("DataArray", d, <<"SST">>) : d \in EnsembleDims}

\* Objects offered to add_control, add_reference and add_uninitialized:
\* time series, maps of them, members of them, and objects without `time`;
\* with the variables of the ensemble, fewer, others, or in another order.
AddedDims == {{"time"}, {"time", "lat"}, {"time", "member"}, {"lat"}}

AddedVarLists ==
    {<<>>, <<"SST">>, <<"SALT">>, <<"TEMP">>, <<"SALT", "SST">>, <<"SST", "TEMP">>}

AddedXObjs ==
    {XObj("Dataset", d, v) : d \in AddedDims, v \in AddedVarLists}
    \cup {XObj("DataArray", d, <<"SST">>) : d \in AddedDims}

\* The placeholder `{}`.
EmptyDict == [type |-> "dict", dims |-> {}, data_vars |-> <<>>]

\* Before construction there is no object.
NoObject == "none"

-----------------------------------------------------------------------------
(* xarray / Python primitives *)

\* DataArray.to_dataset(): a Dataset holding the one named variable.
to_dataset(xobj) ==
    [type |-> "Dataset", dims |-> xobj.dims, data_vars |-> xobj.data_vars]

\* `if isinstance(xobj, xr.DataArray): xobj = xobj.to_dataset()`
promote(xobj) ==
    IF xobj.type = "DataArray" THEN to_dataset(xobj) ELSE xobj

\* len(): of a dict its keys, of a Dataset its data variables.
len(x) == Len(x.data_vars)

\* Dataset.rename({old: new}) on the dimension names.
rename(dims, old, new) ==
    IF old \in dims THEN (dims \ {old}) \cup {new} ELSE dims

\* ds[var]: the DataArray of one variable.
getitem(ds, var) ==
    [type |-> "DataArray", dims |-> ds.dims, data_vars |-> <<var>>]

\* ds[var] raises KeyError when ds (a Dataset or the empty dict) has no var.
has_key(ds, var) == var \in Range(ds.data_vars)

\* Dataset.drop(names): the data variables not named, in their order.
drop(ds, names) ==
    [ds EXCEPT !.data_vars = SelectSeq(ds.data_vars, LAMBDA v : v \notin Range(names))]

-----------------------------------------------------------------------------
(* Results of a call *)

NoCall == [engine |-> "none", a |-> EmptyDict, b |-> EmptyDict]

\* A call of an engine of prediction.py or bootstrap.py and what it returns.
Call(engine, a, b) == [engine |-> engine, a |-> a, b |-> b]

EmptyMap == [n \in {} |-> NoCall]

NoResult ==
    [status |-> "none", error |-> "", unmatch_dims |-> {},
     shape |-> "none", single |-> NoCall, mapping |-> EmptyMap,
     lists |-> <<<<>>, <<>>>>]

Raise(err) == [NoResult EXCEPT !.status = "raise", !.error = err]

RaiseDims(err, dims) == [Raise(err) EXCEPT !.unmatch_dims = dims]

\* A method that ends without a return statement.
ReturnNone == [NoResult EXCEPT !.status = "return", !.shape = "None"]

ReturnSingle(call) ==
    [NoResult EXCEPT !.status = "return", !.shape = "single", !.single = call]

ReturnMapping(m) ==
    [NoResult EXCEPT !.status = "return", !.shape = "mapping", !.mapping = m]

\* A method that returns a pair of lists.
ReturnLists(pair) ==
    [NoResult EXCEPT !.status = "return", !.shape = "lists", !.lists = pair]

\* A check that returns without raising.
Ok == [NoResult EXCEPT !.status = "ok"]

\* The call the caller made last and has not yet taken the outcome of: the
\* method, the xarray object handed in (if any), the name, refname or var,
\* and the `init` flag (True where the method has none).
Op(name, xobj, arg) == [name |-> name, xobj |-> xobj, arg |-> arg, init |-> TRUE]

OpInit(name, arg, init) == [Op(name, EmptyDict, arg) EXCEPT !.init = init]

NoOp == Op("none", EmptyDict, None)

-----------------------------------------------------------------------------
(* VARIOUS CHECKS *)

\* Variant: `any` where the code has `all`.
check_prediction_ensemble_dimensions_any(xobj) ==
    LET cond == \E d \in {"init", "lead"} : d \in xobj.dims
    IN  IF ~cond THEN Raise("DimensionError") ELSE Ok

\* Raises DimensionError unless `init` and `lead` are both dimensions.
check_prediction_ensemble_dimensions(xobj) ==
    LET cond == \A d \in {"init", "lead"} : d \in xobj.dims
    IN  IF ~cond THEN Raise("DimensionError") ELSE Ok

\* The initialized dimensions a reference has to carry.
init_dims(init) == rename(init.dims, "init", "time") \ {"lead", "member"}

\* a ^ b on Python sets.
SymDiff(a, b) == (a \ b) \cup (b \ a)

\* Variant: reports the reference's extra dimensions only (a - b for a ^ b).
check_reference_dimensions_difference(init, ref) ==
    IF ~(ref.dims = init_dims(init))
    THEN RaiseDims("DimensionError", ref.dims \ init_dims(init))
    ELSE Ok

check_reference_dimensions(init, ref) ==
    IF ~(ref.dims = init_dims(init))
    THEN RaiseDims("DimensionError", SymDiff(ref.dims, init_dims(init)))
    ELSE Ok

\* Variant: asks for every initialized variable instead of one in common.
check_reference_vars_match_initialized_subset(init, ref) ==
    LET init_vars == init.data_vars
        ref_vars  == ref.data_vars
    IN  IF ~(Range(init_vars) \subseteq Range(ref_vars))
        THEN Raise("VariableError")
        ELSE Ok

check_reference_vars_match_initialized(init, ref) ==
    LET init_vars == init.data_vars
        ref_vars  == ref.data_vars
    IN  IF Range(init_vars) \cap Range(ref_vars) = {}
        THEN Raise("VariableError")
        ELSE Ok

\* The two checks every add operation runs, in order; the first error wins.
validate_added(init, xobj) ==
    IF check_reference_dimensions(init, xobj) # Ok
    THEN check_reference_dimensions(init, xobj)
    ELSE check_reference_vars_match_initialized(init, xobj)

-----------------------------------------------------------------------------
(* Construction *)

Init ==
    /\ kind = NoObject
    /\ initialized = EmptyDict
    /\ uninitialized = EmptyDict
    /\ control = EmptyDict
    /\ reference = EmptyMap
    /\ op = NoOp
    /\ result = NoResult
    /\ history = EmptyMap

\* PredictionEnsemble.__init__ through PerfectModelEnsemble.__init__ or
\* HindcastEnsemble.__init__.
Construct(cls, xobj) ==
    /\ kind = NoObject
    /\ op = NoOp
    /\ op' = Op("__init__", xobj, cls)
    /\ LET ds == promote(xobj)
           chk == check_prediction_ensemble_dimensions(ds)
       IN  IF chk # Ok
           THEN /\ result' = chk
                /\ UNCHANGED <<kind, initialized, uninitialized, control, reference>>
           ELSE /\ result' = ReturnNone
                /\ kind' = cls
                /\ initialized' = ds
                /\ uninitialized' = EmptyDict
                /\ control' = EmptyDict
                /\ reference' = EmptyMap
    /\ UNCHANGED history

-----------------------------------------------------------------------------
(* PerfectModelEnsemble *)

PM == "PerfectModelEnsemble"

HC == "HindcastEnsemble"

\* What bootstrap_uninit_pm_ensemble_from_control (bootstrap.py) can return
\* for (init, ctrl): an object of the type it was given, shaped like either
\* of its two inputs and carrying the variables of either.
bootstrap_uninit_pm_ensemble_from_control(init, ctrl) ==
    {[type |-> init.type, dims |-> d, data_vars |-> v] :
        d \in {init.dims, ctrl.dims}, v \in {init.data_vars, ctrl.data_vars}}

\* The engine cannot resample a control that is the empty dict.
bootstrap_engine_fails(init, ctrl) == ctrl.type = "dict"

\* Variant: assigns before it validates.
PM_add_control_assign_first(xobj) ==
    /\ kind = PM
    /\ op = NoOp
    /\ op' = Op("add_control", xobj, None)
    /\ control' = promote(xobj)
    /\ LET chk == validate_added(initialized, promote(xobj))
       IN  result' = IF chk # Ok THEN chk ELSE ReturnNone
    /\ UNCHANGED <<kind, initialized, uninitialized, reference, history>>

\* add_control: validate, then assign.
PM_add_control(xobj) ==
    /\ kind = PM
    /\ op = NoOp
    /\ op' = Op("add_control", xobj, None)
    /\ LET ds == promote(xobj)
           chk == validate_added(initialized, ds)
       IN  IF chk # Ok
           THEN /\ result' = chk
                /\ UNCHANGED control
           ELSE /\ result' = ReturnNone
                /\ control' = ds
    /\ UNCHANGED <<kind, initialized, uninitialized, reference, history>>

\* Variant: with var given, the engine is handed initialized[var] twice and
\* the control is never read.
PM_generate_uninitialized_twice(var) ==
    /\ kind = PM
    /\ op = NoOp
    /\ op' = Op("generate_uninitialized", EmptyDict, var)
    /\ IF var # None
       THEN IF ~has_key(initialized, var)
            THEN /\ result' = Raise("KeyError")
                 /\ UNCHANGED uninitialized
            ELSE \E uninit \in bootstrap_uninit_pm_ensemble_from_control(
                                   getitem(initialized, var), getitem(initialized, var)) :
                     /\ uninitialized' = to_dataset(uninit)
                     /\ result' = ReturnNone
       ELSE IF bootstrap_engine_fails(initialized, control)
            THEN /\ result' = Raise("EngineError")
                 /\ UNCHANGED uninitialized
            ELSE \E uninit \in bootstrap_uninit_pm_ensemble_from_control(
                                   initialized, control) :
                     /\ uninitialized' = uninit
                     /\ result' = ReturnNone
    /\ UNCHANGED <<kind, initialized, control, reference, history>>

PM_generate_uninitialized(var) ==
    /\ kind = PM
    /\ op = NoOp
    /\ op' = Op("generate_uninitialized", EmptyDict, var)
    /\ IF var # None
       THEN IF ~has_key(initialized, var) \/ ~has_key(control, var)
            THEN /\ result' = Raise("KeyError")
                 /\ UNCHANGED uninitialized
            ELSE \E uninit \in bootstrap_uninit_pm_ensemble_from_control(
                                   getitem(initialized, var), getitem(control, var)) :
                     /\ uninitialized' = to_dataset(uninit)
                     /\ result' = ReturnNone
       ELSE IF bootstrap_engine_fails(initialized, control)
            THEN /\ result' = Raise("EngineError")
                 /\ UNCHANGED uninitialized
            ELSE \E uninit \in bootstrap_uninit_pm_ensemble_from_control(
                                   initialized, control) :
                     /\ uninitialized' = uninit
                     /\ result' = ReturnNone
    /\ UNCHANGED <<kind, initialized, control, reference, history>>

\* The result of PerfectModelEnsemble.compute_metric in the current state.
PM_compute_metric_result ==
    IF len(control) = 0
    THEN Raise("DatasetError")
    ELSE ReturnSingle(Call("compute_perfect_model", initialized, control))

PM_compute_metric ==
    /\ kind = PM
    /\ op = NoOp
    /\ op' = Op("compute_metric", EmptyDict, None)
    /\ result' = PM_compute_metric_result
    /\ UNCHANGED <<kind, initialized, uninitialized, control, reference, history>>

\* Variant: the guard of compute_metric pasted in, testing the control.
PM_compute_uninitialized_result_control ==
    IF len(control) = 0
    THEN Raise("DatasetError")
    ELSE ReturnSingle(Call("compute_perfect_model", uninitialized, control))

PM_compute_uninitialized_result ==
    IF len(uninitialized) = 0
    THEN Raise("DatasetError")
    ELSE ReturnSingle(Call("compute_perfect_model", uninitialized, control))

PM_compute_uninitialized ==
    /\ kind = PM
    /\ op = NoOp
    /\ op' = Op("compute_uninitialized", EmptyDict, None)
    /\ result' = PM_compute_uninitialized_result
    /\ UNCHANGED <<kind, initialized, uninitialized, control, reference, history>>

PM_compute_persistence_result ==
    IF len(control) = 0
    THEN Raise("DatasetError")
    ELSE ReturnSingle(Call("compute_persistence", initialized, control))

PM_compute_persistence ==
    /\ kind = PM
    /\ op = NoOp
    /\ op' = Op("compute_persistence", EmptyDict, None)
    /\ result' = PM_compute_persistence_result
    /\ UNCHANGED <<kind, initialized, uninitialized, control, reference, history>>

\* bootstrap_perfect_model on one variable of initialized and control.
bootstrap_var(var) ==
    IF ~has_key(initialized, var) \/ ~has_key(control, var)
    THEN Raise("KeyError")
    ELSE ReturnSingle(Call("bootstrap_perfect_model",
                           getitem(initialized, var), getitem(control, var)))

PM_bootstrap_result(var) ==
    IF len(control) = 0
    THEN Raise("DatasetError")
    ELSE IF var # None
    THEN bootstrap_var(var)
    ELSE IF Len(initialized.data_vars) = 1
    THEN bootstrap_var(initialized.data_vars[1])
    ELSE IF \E v \in Range(control.data_vars) : bootstrap_var(v).status = "raise"
    THEN Raise("KeyError")
    ELSE ReturnMapping([v \in Range(control.data_vars) |-> bootstrap_var(v).single])

PM_bootstrap(var) ==
    /\ kind = PM
    /\ op = NoOp
    /\ op' = Op("bootstrap", EmptyDict, var)
    /\ result' = PM_bootstrap_result(var)
    /\ UNCHANGED <<kind, initialized, uninitialized, control, reference, history>>

-----------------------------------------------------------------------------
(* HindcastEnsemble *)

\* list.index(var) followed by list.pop(idx): the list without the first var.
pop_var(l, var) ==
    LET idx == CHOOSE i \in DOMAIN l : l[i] = var /\ \A j \in 1..(i - 1) : l[j] # var
    IN  SubSeq(l, 1, idx - 1) \o SubSeq(l, idx + 1, Len(l))

\* `for var in intersect:` popping var from the list.
RECURSIVE pop_all(_, _)
pop_all(l, intersect) ==
    IF intersect = {} THEN l
    ELSE LET var == CHOOSE v \in intersect : TRUE
         IN  pop_all(pop_var(l, var), intersect \ {var})

\* Variant: the loop pops the shared variables from init_vars only.
vars_to_drop_init_only(ref, init) ==
    LET init_vars == IF init THEN initialized.data_vars ELSE uninitialized.data_vars
        ref_vars  == reference[ref].data_vars
        intersect == Range(ref_vars) \cap Range(init_vars)
    IN  <<pop_all(init_vars, intersect), ref_vars>>

\* _vars_to_drop(ref, init): <<init_vars, ref_vars>> after the loop.
vars_to_drop(ref, init) ==
    LET init_vars == IF init THEN initialized.data_vars ELSE uninitialized.data_vars
        ref_vars  == reference[ref].data_vars
        intersect == Range(ref_vars) \cap Range(init_vars)
    IN  <<pop_all(init_vars, intersect), pop_all(ref_vars, intersect)>>

\* Variant: dict.setdefault, which keeps an entry already there.
setitem_setdefault(mapping, name, xobj) ==
    [n \in DOMAIN mapping \cup {name} |->
        IF n \in DOMAIN mapping THEN mapping[n] ELSE xobj]

\* self.reference[name] = xobj
setitem(mapping, name, xobj) ==
    [n \in DOMAIN mapping \cup {name} |-> IF n = name THEN xobj ELSE mapping[n]]

HC_add_reference(xobj, name) ==
    /\ kind = HC
    /\ op = NoOp
    /\ op' = Op("add_reference", xobj, name)
    /\ LET ds == promote(xobj)
           chk == validate_added(initialized, ds)
       IN  IF chk # Ok
           THEN /\ result' = chk
                /\ UNCHANGED <<reference, history>>
           ELSE /\ result' = ReturnNone
                /\ reference' = setitem(reference, name, ds)
                \* history: per name used in a call that returned, the
                \* dataset of the latest such call and whether there was
                \* one before it; kept beside the object, read by no
                \* operation.
                /\ history' = [n \in DOMAIN history \cup {name} |->
                                   IF n = name
                                   THEN [xobj |-> promote(xobj),
                                         again |-> name \in DOMAIN history]
                                   ELSE history[n]]
    /\ UNCHANGED <<kind, initialized, uninitialized, control>>

\* Variant: stores the object without the two checks.
HC_add_uninitialized_unchecked(xobj) ==
    /\ kind = HC
    /\ op = NoOp
    /\ op' = Op("add_uninitialized", xobj, None)
    /\ result' = ReturnNone
    /\ uninitialized' = promote(xobj)
    /\ UNCHANGED <<kind, initialized, control, reference, history>>

HC_add_uninitialized(xobj) ==
    /\ kind = HC
    /\ op = NoOp
    /\ op' = Op("add_uninitialized", xobj, None)
    /\ LET ds == promote(xobj)
           chk == validate_added(initialized, ds)
       IN  IF chk # Ok
           THEN /\ result' = chk
                /\ UNCHANGED uninitialized
           ELSE /\ result' = ReturnNone
                /\ uninitialized' = ds
    /\ UNCHANGED <<kind, initialized, control, reference, history>>

\* compute_hindcast on initialized and reference `key`, each without the
\* variables the other lacks.
hindcast_one(key) ==
    LET d == vars_to_drop(key, TRUE)
    IN  Call("compute_hindcast", drop(initialized, d[1]), drop(reference[key], d[2]))

\* Variant: without the branch for exactly one reference.
HC_compute_metric_result_mapping(refname) ==
    IF Cardinality(DOMAIN reference) = 0
    THEN Raise("DatasetError")
    ELSE IF refname # None
    THEN IF refname \notin DOMAIN reference
         THEN Raise("KeyError")
         ELSE ReturnSingle(hindcast_one(refname))
    ELSE ReturnMapping([key \in DOMAIN reference |-> hindcast_one(key)])

HC_compute_metric_result(refname) ==
    IF Cardinality(DOMAIN reference) = 0
    THEN Raise("DatasetError")
    ELSE IF refname # None
    THEN IF refname \notin DOMAIN reference
         THEN Raise("KeyError")
         ELSE ReturnSingle(hindcast_one(refname))
    ELSE IF Cardinality(DOMAIN reference) = 1
    THEN ReturnSingle(hindcast_one(CHOOSE n \in DOMAIN reference : TRUE))
    ELSE ReturnMapping([key \in DOMAIN reference |-> hindcast_one(key)])

\* Variant: the variables are dropped from self.initialized itself.
HC_compute_metric_inplace(refname) ==
    /\ kind = HC
    /\ op = NoOp
    /\ op' = Op("compute_metric", EmptyDict, refname)
    /\ result' = HC_compute_metric_result(refname)
    /\ initialized' = IF HC_compute_metric_result(refname).shape = "single"
                      THEN HC_compute_metric_result(refname).single.a
                      ELSE initialized
    /\ UNCHANGED <<kind, uninitialized, control, reference, history>>

HC_compute_metric(refname) ==
    /\ kind = HC
    /\ op = NoOp
    /\ op' = Op("compute_metric", EmptyDict, refname)
    /\ result' = HC_compute_metric_result(refname)
    /\ UNCHANGED <<kind, initialized, uninitialized, control, reference, history>>

uninitialized_one(key) ==
    LET d == vars_to_drop(key, FALSE)
    IN  Call("compute_uninitialized",
             drop(uninitialized, d[1]), drop(reference[key], d[2]))

HC_compute_uninitialized_result(refname) ==
    IF len(uninitialized) = 0
    THEN Raise("DatasetError")
    ELSE IF refname # None
    THEN IF refname \notin DOMAIN reference
         THEN Raise("KeyError")
         ELSE ReturnSingle(uninitialized_one(refname))
    ELSE IF Cardinality(DOMAIN reference) = 1
    THEN ReturnSingle(uninitialized_one(CHOOSE n \in DOMAIN reference : TRUE))
    ELSE ReturnMapping([key \in DOMAIN reference |-> uninitialized_one(key)])

HC_compute_uninitialized(refname) ==
    /\ kind = HC
    /\ op = NoOp
    /\ op' = Op("compute_uninitialized", EmptyDict, refname)
    /\ result' = HC_compute_uninitialized_result(refname)
    /\ UNCHANGED <<kind, initialized, uninitialized, control, reference, history>>

persistence_one(key) == Call("compute_persistence", initialized, reference[key])

\* Variant: with the branch of compute_metric for exactly one reference.
HC_compute_persistence_result_single(refname) ==
    IF Cardinality(DOMAIN reference) = 0
    THEN Raise("DatasetError")
    ELSE IF refname # None
    THEN IF refname \notin DOMAIN reference
         THEN Raise("KeyError")
         ELSE ReturnSingle(persistence_one(refname))
    ELSE IF Cardinality(DOMAIN reference) = 1
    THEN ReturnSingle(persistence_one(CHOOSE n \in DOMAIN reference : TRUE))
    ELSE ReturnMapping([key \in DOMAIN reference |-> persistence_one(key)])

HC_compute_persistence_result(refname) ==
    IF Cardinality(DOMAIN reference) = 0
    THEN Raise("DatasetError")
    ELSE IF refname # None
    THEN IF refname \notin DOMAIN reference
         THEN Raise("KeyError")
         ELSE ReturnSingle(persistence_one(refname))
    ELSE ReturnMapping([key \in DOMAIN reference |-> persistence_one(key)])

HC_compute_persistence(refname) ==
    /\ kind = HC
    /\ op = NoOp
    /\ op' = Op("compute_persistence", EmptyDict, refname)
    /\ result' = HC_compute_persistence_result(refname)
    /\ UNCHANGED <<kind, initialized, uninitialized, control, reference, history>>

\* _vars_to_drop called on its own: reading .data_vars of the {} placeholder
\* raises AttributeError, an unknown reference name raises KeyError.
HC_vars_to_drop_result(ref, init) ==
    IF ~init /\ uninitialized = EmptyDict THEN Raise("AttributeError")
    ELSE IF ref \notin DOMAIN reference THEN Raise("KeyError")
    ELSE ReturnLists(vars_to_drop(ref, init))

HC_vars_to_drop(ref, init) ==
    /\ kind = HC
    /\ op = NoOp
    /\ op' = OpInit("_vars_to_drop", ref, init)
    /\ result' = HC_vars_to_drop_result(ref, init)
    /\ UNCHANGED <<kind, initialized, uninitialized, control, reference, history>>

HC_compute_horizon(refname) ==
    /\ kind = HC
    /\ op = NoOp
    /\ op' = Op("compute_horizon", EmptyDict, refname)
    /\ result' = Raise("NotImplementedError")
    /\ UNCHANGED <<kind, initialized, uninitialized, control, reference, history>>

-----------------------------------------------------------------------------
(* The caller *)

\* The caller takes the outcome of the call (the value returned or the
\* exception raised) and is free to make the next call.
Return ==
    /\ op # NoOp
    /\ op' = NoOp
    /\ result' = NoResult
    /\ UNCHANGED <<kind, initialized, uninitialized, control, reference, history>>

RefArgs == Names \cup {None}

VarArgs == Vars \cup {None}

Next ==
    \/ \E cls \in {PM, HC}, xobj \in EnsembleXObjs : Construct(cls, xobj)
    \/ \E xobj \in AddedXObjs : PM_add_control(xobj)
    \/ \E var \in VarArgs : PM_generate_uninitialized(var)
    \/ PM_compute_metric
    \/ PM_compute_uninitialized
    \/ PM_compute_persistence
    \/ \E var \in VarArgs : PM_bootstrap(var)
    \/ \E xobj \in AddedXObjs, name \in Names : HC_add_reference(xobj, name)
    \/ \E xobj \in AddedXObjs : HC_add_uninitialized(xobj)
    \/ \E refname \in RefArgs : HC_compute_metric(refname)
    \/ \E refname \in RefArgs : HC_compute_uninitialized(refname)
    \/ \E refname \in RefArgs : HC_compute_persistence(refname)
    \/ \E refname \in RefArgs : HC_compute_horizon(refname)
    \/ \E ref \in Names, init \in BOOLEAN : HC_vars_to_drop(ref, init)
    \/ Return

Spec == Init /\ [][Next]_vars

\* The calls a caller can make who builds a HindcastEnsemble.
NextHindcast ==
    \/ \E xobj \in EnsembleXObjs : Construct(HC, xobj)
    \/ \E xobj \in AddedXObjs, name \in Names : HC_add_reference(xobj, name)
    \/ \E xobj \in AddedXObjs : HC_add_uninitialized(xobj)
    \/ \E refname \in RefArgs : HC_compute_metric(refname)
    \/ \E refname \in RefArgs : HC_compute_uninitialized(refname)
    \/ \E refname \in RefArgs : HC_compute_persistence(refname)
    \/ \E refname \in RefArgs : HC_compute_horizon(refname)
    \/ \E ref \in Names, init \in BOOLEAN : HC_vars_to_drop(ref, init)
    \/ Return

SpecHindcast == Init /\ [][NextHindcast]_vars

-----------------------------------------------------------------------------
(* Properties *)

AddOps == {"add_control", "add_reference", "add_uninitialized"}

\* The dimension set a candidate has to carry: the initialized dimensions
\* with `init` renamed to `time` and `lead`, `member` removed.
RequiredDims == ((initialized.dims \ {"init"}) \cup {"time"}) \ {"lead", "member"}

SharedVars(a, b) == Range(a.data_vars) \cap Range(b.data_vars)

\* C1: constructing an ensemble from an object without `init` or without
\* `lead` raises DimensionError and leaves no object; from an object with
\* both it returns and stores the object, as a Dataset, as `initialized`.
C1_Construction ==
    op.name = "__init__" =>
        IF "init" \in op.xobj.dims /\ "lead" \in op.xobj.dims
        THEN /\ result.status = "return"
             /\ kind = op.arg
             /\ initialized = XObj("Dataset", op.xobj.dims, op.xobj.data_vars)
        ELSE /\ result.status = "raise"
             /\ result.error = "DimensionError"
             /\ kind = NoObject
             /\ initialized = EmptyDict

C1_Witness ==
    /\ op.name = "__init__"
    /\ op.xobj.dims = {"init", "member", "lat"}
    /\ result.error = "DimensionError"
    /\ kind = NoObject

\* C2: an add operation given a candidate whose dimension set differs from
\* the required one raises DimensionError and reports the symmetric
\* difference of the two sets; given a candidate whose dimension set is the
\* required one it raises no DimensionError.
C2_DimensionMismatch ==
    op.name \in AddOps =>
        IF op.xobj.dims # RequiredDims
        THEN /\ result.status = "raise"
             /\ result.error = "DimensionError"
             /\ result.unmatch_dims =
                    (op.xobj.dims \ RequiredDims) \cup (RequiredDims \ op.xobj.dims)
        ELSE result.error # "DimensionError"

C2_Witness ==
    /\ op.name \in AddOps
    /\ "member" \in initialized.dims
    /\ op.xobj.dims = {"time", "member"}
    /\ result.error = "DimensionError"
    /\ result.unmatch_dims = {"lat", "member"}

\* C3 as stated: an add operation given a candidate that shares no variable
\* name with the initialized dataset raises VariableError.
C3_Original ==
    (op.name \in AddOps /\ SharedVars(initialized, op.xobj) = {}) =>
        (result.status = "raise" /\ result.error = "VariableError")

\* C3, amended: an add operation given a candidate that carries the required
\* dimensions and shares no variable name with the initialized dataset raises
\* VariableError; a candidate with other dimensions raises DimensionError
\* whatever its variables.
C3_NoSharedVariable ==
    (op.name \in AddOps /\ SharedVars(initialized, op.xobj) = {}) =>
        /\ result.status = "raise"
        /\ result.error =
               IF op.xobj.dims = RequiredDims
               THEN "VariableError" ELSE "DimensionError"

C3_Witness ==
    /\ op.name \in AddOps
    /\ op.xobj.data_vars = <<"TEMP">>
    /\ initialized.data_vars = <<"SST", "SALT">>
    /\ result.error = "VariableError"

\* C4: an add operation that raises DimensionError or VariableError leaves
\* initialized, control, the reference mapping and uninitialized as they were.
C4_FailedAddChangesNothing ==
    [][(op'.name \in AddOps /\ result'.status = "raise") =>
          UNCHANGED <<initialized, control, reference, uninitialized>>]_vars

C4_Witness ==
    /\ op.name = "add_control"
    /\ result.error \in {"DimensionError", "VariableError"}
    /\ control # EmptyDict

\* A dataset as the add operations accept it: the required dimensions and at
\* least one variable of the initialized dataset.
Conforms(ds) == ds.dims = RequiredDims /\ SharedVars(initialized, ds) # {}

C6_ReferenceMapping ==
    /\ [](kind = HC =>
            /\ DOMAIN reference = DOMAIN history
            /\ \A n \in DOMAIN reference : reference[n] = history[n].xobj)
    /\ [][(op'.name = "add_reference" /\ op'.arg \in DOMAIN reference) =>
            /\ Cardinality(DOMAIN reference') = Cardinality(DOMAIN reference)
            /\ result'.status = "return" =>
                   reference'[op'.arg] =
                       XObj("Dataset", op'.xobj.dims, op'.xobj.data_vars)]_vars

C6_Witness ==
    /\ op.name = "add_reference"
    /\ result.status = "return"
    /\ history[op.arg].again
    /\ Cardinality(DOMAIN reference) = 2
    /\ \E n \in DOMAIN reference : reference[n] # reference[op.arg]

\* C7: on a PerfectModelEnsemble compute_metric, compute_persistence and
\* bootstrap raise DatasetError exactly when no control is attached, and
\* compute_uninitialized raises DatasetError exactly when no uninitialized
\* dataset has been generated.
C7_PerfectModelPrerequisites ==
    kind = PM =>
        /\ op.name \in {"compute_metric", "compute_persistence", "bootstrap"} =>
               ((result.status = "raise" /\ result.error = "DatasetError")
                    <=> control = EmptyDict)
        /\ op.name = "compute_uninitialized" =>
               ((result.status = "raise" /\ result.error = "DatasetError")
                    <=> uninitialized = EmptyDict)

C7_Witness ==
    /\ kind = PM
    /\ op.name = "compute_uninitialized"
    /\ result.error = "DatasetError"
    /\ control # EmptyDict

\* C8: HindcastEnsemble.compute_metric without refname raises DatasetError
\* with no reference; with one reference returns the single result that the
\* reference's name gives; with two or more returns a mapping from every
\* reference name to the single result for that name.
C8_ComputeMetricDispatch ==
    (kind = HC /\ op.name = "compute_metric" /\ op.arg = None) =>
        LET n == Cardinality(DOMAIN reference)
        IN  /\ n = 0 => (result.status = "raise" /\ result.error = "DatasetError")
            /\ n = 1 => /\ result.status = "return"
                        /\ result.shape = "single"
                        /\ \A r \in DOMAIN reference :
                               result = HC_compute_metric_result(r)
            /\ n >= 2 => /\ result.status = "return"
                         /\ result.shape = "mapping"
                         /\ DOMAIN result.mapping = DOMAIN reference
                         /\ \A r \in DOMAIN reference :
                                ReturnSingle(result.mapping[r])
                                    = HC_compute_metric_result(r)

C8_Witness ==
    /\ kind = HC
    /\ op.name = "compute_metric"
    /\ op.arg = None
    /\ result.shape = "mapping"
    /\ Cardinality(DOMAIN result.mapping) >= 2

\* The persistence result for one reference.
PersistenceFor(r) ==
    ReturnSingle(Call("compute_persistence", initialized, reference[r]))

\* C9 as stated: HindcastEnsemble.compute_persistence returns the single
\* result of the named reference; without refname and with one reference
\* the single result of that reference; without refname and with several a
\* mapping over all references.
C9_Original ==
    (kind = HC /\ op.name = "compute_persistence") =>
        LET n == Cardinality(DOMAIN reference)
        IN  /\ op.arg \in DOMAIN reference => result = PersistenceFor(op.arg)
            /\ (op.arg = None /\ n = 1) =>
                   /\ result.shape = "single"
                   /\ \A r \in DOMAIN reference : result = PersistenceFor(r)
            /\ (op.arg = None /\ n >= 2) =>
                   /\ result.shape = "mapping"
                   /\ DOMAIN result.mapping = DOMAIN reference
                   /\ \A r \in DOMAIN reference :
                          ReturnSingle(result.mapping[r]) = PersistenceFor(r)

\* C9, amended: HindcastEnsemble.compute_persistence returns the single
\* result of the named reference; without refname it returns a mapping over
\* all references, also when there is exactly one.
C9_PersistenceDispatch ==
    (kind = HC /\ op.name = "compute_persistence") =>
        LET n == Cardinality(DOMAIN reference)
        IN  /\ op.arg \in DOMAIN reference => result = PersistenceFor(op.arg)
            /\ (op.arg = None /\ n >= 1) =>
                   /\ result.status = "return"
                   /\ result.shape = "mapping"
                   /\ DOMAIN result.mapping = DOMAIN reference
                   /\ \A r \in DOMAIN reference :
                          ReturnSingle(result.mapping[r]) = PersistenceFor(r)

C9_Witness ==
    /\ kind = HC
    /\ op.name = "compute_persistence"
    /\ op.arg = None
    /\ Cardinality(DOMAIN reference) = 1
    /\ result.shape = "mapping"

\* C10 as stated: an operation called while a dataset it reads (the control,
\* the uninitialized dataset, a reference) is not attached raises
\* DatasetError.
C10_Original ==
    LET DatasetError == result.status = "raise" /\ result.error = "DatasetError"
        NoReference  == DOMAIN reference = {}
    IN  /\ (kind = PM /\ control = EmptyDict
              /\ op.name \in {"compute_metric", "compute_persistence", "bootstrap",
                              "generate_uninitialized", "compute_uninitialized"})
               => DatasetError
        /\ (kind = PM /\ uninitialized = EmptyDict
              /\ op.name = "compute_uninitialized") => DatasetError
        /\ (kind = HC /\ NoReference
              /\ op.name \in {"compute_metric", "compute_persistence",
                              "compute_uninitialized"}) => DatasetError
        /\ (kind = HC /\ uninitialized = EmptyDict
              /\ op.name = "compute_uninitialized") => DatasetError

\* The bootstrap result for one variable of initialized and control.
BootstrapFor(v) ==
    Call("bootstrap_perfect_model",
         XObj("DataArray", initialized.dims, <<v>>),
         XObj("DataArray", control.dims, <<v>>))

\* C11 as stated: PerfectModelEnsemble.bootstrap with a control attached
\* runs the engine once on `var` when var is given; once on the only
\* variable when initialized has exactly one; and otherwise once per
\* variable of control, returning a mapping keyed by control's variables.
C11_Original ==
    (kind = PM /\ op.name = "bootstrap" /\ control # EmptyDict) =>
        IF op.arg # None
        THEN (op.arg \in Range(initialized.data_vars) \cap Range(control.data_vars))
                 => result = ReturnSingle(BootstrapFor(op.arg))
        ELSE IF Len(initialized.data_vars) = 1
        THEN result = ReturnSingle(BootstrapFor(initialized.data_vars[1]))
        ELSE /\ result.status = "return"
             /\ result.shape = "mapping"
             /\ DOMAIN result.mapping = Range(control.data_vars)
             /\ \A v \in Range(control.data_vars) :
                    result.mapping[v] = BootstrapFor(v)

\* The dataset _vars_to_drop compares with the reference: initialized when
\* init is True, uninitialized otherwise.
Side(init) == IF init THEN initialized ELSE uninitialized

\* A list without repeated entries.
NoDuplicates(l) == \A i, j \in DOMAIN l : l[i] = l[j] => i = j

\* C12: for every attached reference name and either side that is present,
\* _vars_to_drop returns two lists holding exactly (side variables minus
\* reference variables, reference variables minus side variables); the lists
\* are disjoint, hold no shared variable, and dropping them leaves both
\* datasets with the variable intersection; side [SST, SALT] with reference
\* [SST] gives (['SALT'], []).
C12_VarsToDrop ==
    (/\ kind = HC
     /\ op.name = "_vars_to_drop"
     /\ op.arg \in DOMAIN reference
     /\ Side(op.init) # EmptyDict) =>
        LET side   == Range(Side(op.init).data_vars)
            ref    == Range(reference[op.arg].data_vars)
            first  == result.lists[1]
            second == result.lists[2]
        IN  /\ result.status = "return"
            /\ result.shape = "lists"
            /\ Range(first) = side \ ref
            /\ Range(second) = ref \ side
            /\ NoDuplicates(first) /\ NoDuplicates(second)
            /\ Range(first) \cap Range(second) = {}
            /\ (Range(first) \cup Range(second)) \cap (side \cap ref) = {}
            /\ Range(drop(Side(op.init), first).data_vars) = side \cap ref
            /\ Range(drop(reference[op.arg], second).data_vars) = side \cap ref
            /\ (Side(op.init).data_vars = <<"SST", "SALT">>
                    /\ reference[op.arg].data_vars = <<"SST">>)
                 => result.lists = << <<"SALT">>, <<>> >>

\* _vars_to_drop has returned for the uninitialized side, with a variable to
\* drop on each side.
C12_Witness ==
    /\ kind = HC
    /\ op.name = "_vars_to_drop"
    /\ ~op.init
    /\ op.arg \in DOMAIN reference
    /\ result.shape = "lists"
    /\ result.lists[1] # <<>>
    /\ result.lists[2] # <<>>

\* The engine calls a returned result stands for.
CallsOf(r) ==
    IF r.shape = "single" THEN {r.single}
    ELSE IF r.shape = "mapping" THEN {r.mapping[n] : n \in DOMAIN r.mapping}
    ELSE {}

\* C13 as stated: every call HindcastEnsemble.compute_metric or
\* HindcastEnsemble.compute_uninitialized makes to its comparison engine
\* passes two datasets whose variable-name sets are identical and non-empty.
C13_Original ==
    (kind = HC /\ op.name \in {"compute_metric", "compute_uninitialized"}) =>
        \A c \in CallsOf(result) :
            /\ Range(c.a.data_vars) = Range(c.b.data_vars)
            /\ Range(c.a.data_vars) # {}

\* C14: in every reachable state of a PerfectModelEnsemble an uninitialized
\* dataset is present only if a control is; generate_uninitialized does not
\* complete while the control is absent, and compute_uninitialized never
\* hands an empty control to its engine.
C14_UninitializedNeedsControl ==
    kind = PM =>
        /\ uninitialized # EmptyDict => control # EmptyDict
        /\ (op.name = "generate_uninitialized" /\ control = EmptyDict)
               => result.status = "raise"
        /\ (op.name = "compute_uninitialized" /\ result.status = "return")
               => result.single.b # EmptyDict

\* compute_uninitialized has delegated on an ensemble with a generated
\* uninitialized dataset.
C14_Witness ==
    /\ kind = PM
    /\ uninitialized # EmptyDict
    /\ op.name = "compute_uninitialized"
    /\ result.status = "return"
    /\ result.single.b = control

\* The compute operations of both ensemble types.
ComputeOps ==
    {"compute_metric", "compute_uninitialized", "compute_persistence",
     "bootstrap", "compute_horizon", "_vars_to_drop"}

\* C15: a call of a compute operation (compute_metric,
\* compute_uninitialized, compute_persistence, bootstrap, compute_horizon,
\* _vars_to_drop), whether it returns or raises, leaves initialized, control,
\* the reference mapping and uninitialized as they were; and no operation
\* after construction changes initialized.
C15_ComputeLeavesEnsemble ==
    [][/\ (op = NoOp /\ op'.name \in ComputeOps)
            => /\ result'.status \in {"return", "raise"}
               /\ UNCHANGED <<initialized, control, reference, uninitialized>>
       /\ kind # NoObject => initialized' = initialized]_vars

\* compute_metric has returned a comparison for which it dropped a variable
\* of initialized, and initialized still has that variable.
C15_Witness ==
    /\ kind = HC
    /\ op.name = "compute_metric"
    /\ result.status = "return"
    /\ result.shape = "single"
    /\ result.single.a.dims = initialized.dims
    /\ Len(result.single.a.data_vars) < Len(initialized.data_vars)

====
